---- MODULE Spec2Model ----
(***************************************************************************)
(* A model of the MIXi virtual machine: the bit-field containers Word and  *)
(* Register (src/src/word.rs, src/src/register.rs), the instruction codec  *)
(* (src/src/instruction.rs, src/src/main.rs) and the Computer that loads   *)
(* and executes a Program (src/src/computer.rs, src/src/program.rs).       *)
(*                                                                         *)
(* Machine integers are bit vectors: a uN value is a function from bit     *)
(* positions 0..N-1 (bit 0 least significant) to {0,1}, so that masks,     *)
(* shifts and truncating casts keep the width the Rust types have.  Small  *)
(* scalars that the code only compares and counts with (byte indexes,      *)
(* field specifications, memory positions) are naturals.                   *)
(***************************************************************************)
EXTENDS Integers, Sequences, FiniteSets, TLC

VARIABLES
  \* Computer (src/src/computer.rs) and the Program handed to it
  memory, a, x, i, overflow, comparison, program, index, status, fetched,
  \* one Instruction / one bit pattern going through the codec
  instruction, pattern, stage, coded,
  \* one Word and one Register driven through the Data and Signed traits
  word, register, out

mvars == <<memory, a, x, i, overflow, comparison, program, index, status, fetched>>
cvars == <<instruction, pattern, stage, coded>>
dvars == <<word, register, out>>
vars  == <<mvars, cvars, dvars>>

(***************************************************************************)
(* Bit vectors                                                             *)
(***************************************************************************)
\* bit k of the natural n (n < 2^31), as 0 or 1
BitOf(n, k) == IF k > 30 THEN 0 ELSE (n \div (2 ^ k)) % 2

\* the natural n as a uN value of width w
U(n, w) == [k \in 0 .. (w - 1) |-> BitOf(n, k)]

U32(n) == U(n, 32)
U16(n) == U(n, 16)
U8(n)  == U(n, 8)

RECURSIVE ValFrom(_, _)
ValFrom(v, k) ==
  IF k \notin DOMAIN v THEN 0
  ELSE (IF v[k] = 1 THEN 2 ^ k ELSE 0) + ValFrom(v, k + 1)

\* the natural a bit vector denotes (used on values below 2^31 only)
Val(v) == ValFrom(v, 0)

And(p, q) == [k \in DOMAIN p |-> p[k] * q[k]]
Or(p, q)  == [k \in DOMAIN p |-> IF p[k] + q[k] > 0 THEN 1 ELSE 0]
Not(p)    == [k \in DOMAIN p |-> 1 - p[k]]
\* << and >> of Rust on unsigned integers: bits shifted out are dropped
Shl(p, n) == [k \in DOMAIN p |-> IF (k - n) \in DOMAIN p THEN p[k - n] ELSE 0]
Shr(p, n) == [k \in DOMAIN p |-> IF (k + n) \in DOMAIN p THEN p[k + n] ELSE 0]
\* `as uN`: truncation or zero extension to width w
Cast(p, w) == [k \in 0 .. (w - 1) |-> IF k \in DOMAIN p THEN p[k] ELSE 0]
IsZero(p) == \A k \in DOMAIN p : p[k] = 0

\* Option<T>: None, or Some(v)
None    == <<>>
Some(v) == <<v>>

\* the result of an operation that may abort (assert!, unreachable!, ...)
Ok(v)  == [panic |-> FALSE, value |-> v]
Abort  == [panic |-> TRUE, value |-> <<>>]

(***************************************************************************)
(* trait Data: split_modifier                                              *)
(***************************************************************************)
\* the field specification (left, right) of a two-digit modifier; a pair that
\* breaks the precondition left <= right <= 5 fails fast
split_modifier(modifier) ==
  LET left  == modifier \div 10
      right == modifier % 10
  IN  IF ~(left <= right /\ right <= 5) THEN Abort ELSE Ok(<<left, right>>)

(***************************************************************************)
(* Word (src/src/word.rs)                                                  *)
(***************************************************************************)
Word_BYTES == 5
Word_SIGN_MASK  == U32(1073741824)
Word_DATA_MASK  == U32(1073741823)
Word_VALUE_MASK == U32(2147483647)

Word_new(number, sign) ==
  LET data == And(number, Word_DATA_MASK)
  IN  IF sign = Some(TRUE) THEN Or(data, Word_SIGN_MASK) ELSE data

Word_default == Word_new(U32(0), None)

Word_from_u32_unmasked(value) == value

Word_from_u32(value) == And(value, Word_VALUE_MASK)

Word_read(self) == And(self, Word_VALUE_MASK)

Word_read_data(self) == And(self, Word_DATA_MASK)

Word_get_byte_shift_one_less(self, idx) ==
  IF ~(idx <= Word_BYTES) THEN Abort
  ELSE Ok(Cast(And(Shr(self, (Word_BYTES - idx - 1) * 6), U32(63)), 8))

Word_get_byte(self, idx) ==
  IF ~(idx <= Word_BYTES) THEN Abort
  ELSE Ok(Cast(And(Shr(self, (Word_BYTES - idx) * 6), U32(63)), 8))

\* the loop `for index in left..=right`, from position idx with `result` so far
RECURSIVE Word_read_loop(_, _, _, _)
Word_read_loop(self, idx, right, result) ==
  IF idx > right THEN Ok(result)
  ELSE LET byte == Word_get_byte(self, idx)
       IN  IF byte.panic THEN Abort
           ELSE Word_read_loop(self, idx + 1, right,
                               Or(Shl(result, 6), Cast(byte.value, 32)))

Word_read_with_modifier_exclusive(self, modifier) ==
  LET lr    == split_modifier(modifier)
      left  == lr.value[1]
      right == lr.value[2]
  IN  IF lr.panic THEN Abort
      ELSE IF ~(right <= Word_BYTES) THEN Abort
      ELSE Word_read_loop(self, left, right - 1, U32(0))

Word_read_with_modifier(self, modifier) ==
  LET lr    == split_modifier(modifier)
      left  == lr.value[1]
      right == lr.value[2]
  IN  IF lr.panic THEN Abort
      ELSE IF ~(right <= Word_BYTES) THEN Abort
      ELSE Word_read_loop(self, left, right, U32(0))

Word_write(self, number, sign) ==
  Or(And(number, Word_DATA_MASK), IF sign THEN Word_SIGN_MASK ELSE U32(0))

Word_write_data_drops_sign(self, number) == And(number, Word_DATA_MASK)

Word_write_data(self, number) ==
  Or(And(number, Word_DATA_MASK), And(self, Word_SIGN_MASK))

Word_read_sign(self) == ~IsZero(And(self, Word_SIGN_MASK))

Word_write_sign(self, sign) ==
  IF sign THEN Or(self, Word_SIGN_MASK) ELSE And(self, Not(Word_SIGN_MASK))

\* the sign character impl fmt::Display for Word writes first
Word_fmt_sign(self) == IF Word_read_sign(self) THEN "+" ELSE "-"

(***************************************************************************)
(* Register (src/src/register.rs)                                          *)
(***************************************************************************)
Register_BYTES == 2
Register_DATA_MASK  == U16(4095)
Register_SIGN_MASK  == U16(4096)
Register_VALUE_MASK == U16(8191)

Register_new(number, sign) ==
  LET data == And(number, Register_DATA_MASK)
  IN  IF sign = Some(TRUE) THEN Or(data, Register_SIGN_MASK) ELSE data

Register_default == Register_new(U16(0), None)

Register_read(self) == And(self, Register_VALUE_MASK)

Register_read_data(self) == And(self, Register_DATA_MASK)

Register_get_byte_zero_past_the_end(self, idx) ==
  IF ~(idx <= 2) THEN Ok(U8(0))
  ELSE Ok(Cast(And(Shr(self, (2 - idx) * 6), U16(63)), 8))

Register_get_byte(self, idx) ==
  IF ~(idx <= 2) THEN Abort
  ELSE Ok(Cast(And(Shr(self, (2 - idx) * 6), U16(63)), 8))

RECURSIVE Register_read_loop(_, _, _, _)
Register_read_loop(self, idx, right, result) ==
  IF idx > right THEN Ok(result)
  ELSE LET byte == Register_get_byte(self, idx)
       IN  IF byte.panic THEN Abort
           ELSE Register_read_loop(self, idx + 1, right,
                                   Or(Shl(result, 6), Cast(byte.value, 16)))

Register_read_with_modifier_sign_as_bit(self, modifier) ==
  LET lr    == split_modifier(modifier)
      left  == lr.value[1]
      right == lr.value[2]
  IN  IF lr.panic THEN Abort
      ELSE IF ~(left <= right /\ right <= 2) THEN Abort
      ELSE IF left = 0 /\ right = 0 THEN Ok(Shr(And(self, Register_SIGN_MASK), 12))
      ELSE IF left = 0 /\ right = 2 THEN Ok(Register_read(self))
      ELSE Register_read_loop(self, left, right, U16(0))

Register_read_with_modifier(self, modifier) ==
  LET lr    == split_modifier(modifier)
      left  == lr.value[1]
      right == lr.value[2]
  IN  IF lr.panic THEN Abort
      ELSE IF ~(left <= right /\ right <= 2) THEN Abort
      ELSE IF left = 0 /\ right = 0 THEN Ok(And(self, Register_SIGN_MASK))
      ELSE IF left = 0 /\ right = 2 THEN Ok(Register_read(self))
      ELSE Register_read_loop(self, left, right, U16(0))

Register_write(self, number, sign) ==
  Or(And(number, Register_DATA_MASK), IF sign THEN Register_SIGN_MASK ELSE U16(0))

Register_write_data(self, number) ==
  Or(And(number, Register_DATA_MASK), And(self, Register_SIGN_MASK))

Register_read_sign(self) == ~IsZero(And(self, Register_SIGN_MASK))

Register_write_sign(self, sign) ==
  IF sign THEN Or(self, Register_SIGN_MASK) ELSE And(self, Not(Register_SIGN_MASK))

\* the sign character impl fmt::Display for Register writes first
Register_fmt_sign(self) == IF Register_read_sign(self) THEN "+" ELSE "-"

(***************************************************************************)
(* One Word and one Register driven through their constructors and the     *)
(* Data and Signed traits; `out` records the last call and its result.     *)
(***************************************************************************)
\* arguments `number: u32`, some with bits above the 30-bit magnitude
WordNumbers ==
  { U32(0), U32(17314053), U32(2130706432), Not(U32(0)) }

\* arguments `number: u16`, some with bits above the 12-bit magnitude
RegisterNumbers ==
  { U16(0), U16(66), U16(4096), U16(65535) }

Options == { None, Some(FALSE), Some(TRUE) }

\* the number one past the last byte index the inputs go up to
MaxByteIndex == 6

WordModifiers     == { l * 10 + r : l \in 0 .. MaxByteIndex, r \in 0 .. MaxByteIndex }
RegisterModifiers == { l * 10 + r : l \in 0 .. (MaxByteIndex - 3), r \in 0 .. (MaxByteIndex - 3) }

NoRead == [op |-> "none", arg |-> 0, result |-> Ok(U8(0))]

InitData ==
  /\ word = Word_default
  /\ register = Register_default
  /\ out = NoRead

WordNew ==
  /\ \E number \in WordNumbers, sign \in Options :
       /\ word' = Word_new(number, sign)
       /\ out' = [op |-> "Word::new", arg |-> <<number, sign>>, result |-> Ok(U8(0))]
       /\ UNCHANGED register
  /\ UNCHANGED <<mvars, cvars>>

WordFromU32 ==
  /\ \E value \in WordNumbers :
       /\ word' = Word_from_u32(value)
       /\ out' = [op |-> "Word::from", arg |-> value, result |-> Ok(U8(0))]
       /\ UNCHANGED register
  /\ UNCHANGED <<mvars, cvars>>

WordWrite ==
  /\ \E number \in WordNumbers, sign \in BOOLEAN :
       /\ word' = Word_write(word, number, sign)
       /\ out' = [op |-> "Word::write", arg |-> <<number, sign>>, result |-> Ok(U8(0))]
       /\ UNCHANGED register
  /\ UNCHANGED <<mvars, cvars>>

WordWriteData ==
  /\ \E number \in WordNumbers :
       /\ word' = Word_write_data(word, number)
       /\ out' = [op |-> "Word::write_data", arg |-> number, result |-> Ok(U8(0))]
       /\ UNCHANGED register
  /\ UNCHANGED <<mvars, cvars>>

WordWriteSign ==
  /\ \E sign \in BOOLEAN :
       /\ word' = Word_write_sign(word, sign)
       /\ out' = [op |-> "Word::write_sign", arg |-> sign, result |-> Ok(U8(0))]
       /\ UNCHANGED register
  /\ UNCHANGED <<mvars, cvars>>

WordReadWithModifier ==
  /\ \E modifier \in WordModifiers :
       /\ out' = [op |-> "Word::read_with_modifier", arg |-> modifier,
                  result |-> Word_read_with_modifier(word, modifier)]
       /\ UNCHANGED <<word, register>>
  /\ UNCHANGED <<mvars, cvars>>

WordGetByte ==
  /\ \E idx \in 0 .. MaxByteIndex :
       /\ out' = [op |-> "Word::get_byte", arg |-> idx,
                  result |-> Word_get_byte(word, idx)]
       /\ UNCHANGED <<word, register>>
  /\ UNCHANGED <<mvars, cvars>>

RegisterNew ==
  /\ \E number \in RegisterNumbers, sign \in Options :
       /\ register' = Register_new(number, sign)
       /\ out' = [op |-> "Register::new", arg |-> <<number, sign>>, result |-> Ok(U8(0))]
       /\ UNCHANGED word
  /\ UNCHANGED <<mvars, cvars>>

RegisterWrite ==
  /\ \E number \in RegisterNumbers, sign \in BOOLEAN :
       /\ register' = Register_write(register, number, sign)
       /\ out' = [op |-> "Register::write", arg |-> <<number, sign>>, result |-> Ok(U8(0))]
       /\ UNCHANGED word
  /\ UNCHANGED <<mvars, cvars>>

RegisterWriteData ==
  /\ \E number \in RegisterNumbers :
       /\ register' = Register_write_data(register, number)
       /\ out' = [op |-> "Register::write_data", arg |-> number, result |-> Ok(U8(0))]
       /\ UNCHANGED word
  /\ UNCHANGED <<mvars, cvars>>

RegisterWriteSign ==
  /\ \E sign \in BOOLEAN :
       /\ register' = Register_write_sign(register, sign)
       /\ out' = [op |-> "Register::write_sign", arg |-> sign, result |-> Ok(U8(0))]
       /\ UNCHANGED word
  /\ UNCHANGED <<mvars, cvars>>

RegisterReadWithModifier ==
  /\ \E modifier \in RegisterModifiers :
       /\ out' = [op |-> "Register::read_with_modifier", arg |-> modifier,
                  result |-> Register_read_with_modifier(register, modifier)]
       /\ UNCHANGED <<word, register>>
  /\ UNCHANGED <<mvars, cvars>>

RegisterGetByte ==
  /\ \E idx \in 0 .. (MaxByteIndex - 3) :
       /\ out' = [op |-> "Register::get_byte", arg |-> idx,
                  result |-> Register_get_byte(register, idx)]
       /\ UNCHANGED <<word, register>>
  /\ UNCHANGED <<mvars, cvars>>

NextData ==
  \/ WordNew
  \/ WordFromU32
  \/ WordWrite
  \/ WordWriteData
  \/ WordWriteSign
  \/ WordReadWithModifier
  \/ WordGetByte
  \/ RegisterNew
  \/ RegisterWrite
  \/ RegisterWriteData
  \/ RegisterWriteSign
  \/ RegisterReadWithModifier
  \/ RegisterGetByte

(***************************************************************************)
(* Command and Instruction (src/src/instruction.rs)                        *)
(***************************************************************************)
Command_from_u32(value) ==
  IF value = U32(0) THEN Ok("Noop")
  ELSE IF value = U32(8) THEN Ok("Lda")
  ELSE Abort

u32_from_Command(value) == IF value = "Noop" THEN U32(0) ELSE U32(8)

Instruction_COMMAND_MASK  == U32(63)
Instruction_MODIFIER_MASK == U32(4032)
Instruction_INDEX_MASK    == U32(258048)
Instruction_ADDRESS_MASK  == U32(1073479680)
Instruction_SIGN_MASK     == U32(1073741824)

Instruction_new(sign, address, idx, modifier, command) ==
  [sign |-> sign, address |-> address, index |-> idx,
   modifier |-> modifier, command |-> command]

\* `value.sign as u32`
BoolAsU32(b) == IF b THEN U32(1) ELSE U32(0)

u32_from_Instruction(value) ==
  Or(Or(Or(Or(And(u32_from_Command(value.command), U32(63)),
              Shl(And(value.modifier, U32(63)), 6)),
           Shl(And(value.index, U32(63)), 12)),
        Shl(And(value.address, U32(8191)), 18)),
     Shl(BoolAsU32(value.sign), 30))

Instruction_from_u32_index_mask_shifted(value) ==
  LET command == Command_from_u32(And(value, Instruction_COMMAND_MASK))
  IN  IF command.panic THEN Abort
      ELSE Ok([command  |-> command.value,
               modifier |-> Shr(And(value, Instruction_MODIFIER_MASK), 6),
               index    |-> Shr(And(value, U32(64512)), 12),
               address  |-> Shr(And(value, Instruction_ADDRESS_MASK), 18),
               sign     |-> ~IsZero(And(value, Instruction_SIGN_MASK))])

Instruction_from_u32(value) ==
  LET command == Command_from_u32(And(value, Instruction_COMMAND_MASK))
  IN  IF command.panic THEN Abort
      ELSE Ok([command  |-> command.value,
               modifier |-> Shr(And(value, Instruction_MODIFIER_MASK), 6),
               index    |-> Shr(And(value, Instruction_INDEX_MASK), 12),
               address  |-> Shr(And(value, Instruction_ADDRESS_MASK), 18),
               sign     |-> ~IsZero(And(value, Instruction_SIGN_MASK))])

Word_from_Instruction(value) ==
  LET sign == Some(value.sign)
  IN  Word_new(u32_from_Instruction(value), sign)

Instruction_from_Word(value) ==
  LET sign     == Word_read_with_modifier(value, 0)
      address  == Word_read_with_modifier(value, 12)
      idx      == Word_read_with_modifier(value, 33)
      modifier == Word_read_with_modifier(value, 44)
      code     == Word_read_with_modifier(value, 55)
  IN  IF sign.panic \/ address.panic \/ idx.panic \/ modifier.panic \/ code.panic
      THEN Abort
      ELSE LET command == Command_from_u32(code.value)
           IN  IF command.panic THEN Abort
               ELSE Ok([sign     |-> ~IsZero(sign.value),
                        address  |-> address.value,
                        index    |-> idx.value,
                        modifier |-> modifier.value,
                        command  |-> command.value])

(***************************************************************************)
(* One Instruction taken through Word and u32 and back, and one bit        *)
(* pattern decoded and encoded again.                                      *)
(***************************************************************************)
Commands == { "Noop", "Lda" }

\* field arguments of Instruction::new, in and out of their declared widths
AddressInputs  == { U32(0), U32(1), U32(2000), U32(4095), U32(4096), U32(8191), U32(8192) }
IndexInputs    == { U32(0), U32(37), U32(63), U32(64) }
ModifierInputs == { U32(0), U32(5), U32(63), U32(64) }

\* bit patterns `u32` handed to Instruction::from, with and without bit 31
PatternInputs ==
  { U32(1073741832), U32(524288008), U32(1598029832), U32(1794202248),
    U32(2147483592), U32(2147483647), Not(U32(0)) }
    \cup { U32(c) : c \in 0 .. 63 }
    \cup { Or(U32(8), Shl(U32(1), k)) : k \in 6 .. 31 }

NoInstruction == Instruction_new(FALSE, U32(0), U32(0), U32(0), "Noop")

InitCodec ==
  /\ stage = "start"
  /\ instruction = NoInstruction
  /\ pattern = U32(0)
  /\ coded = U32(0)

InstructionNew ==
  /\ stage = "start"
  /\ \E sign \in BOOLEAN, address \in AddressInputs, idx \in IndexInputs,
        modifier \in ModifierInputs, command \in Commands :
       instruction' = Instruction_new(sign, address, idx, modifier, command)
  /\ stage' = "instruction"
  /\ UNCHANGED <<pattern, coded>>
  /\ UNCHANGED <<mvars, dvars>>

InstructionIntoU32 ==
  /\ stage = "instruction"
  /\ coded' = u32_from_Instruction(instruction)
  /\ stage' = "packed"
  /\ UNCHANGED <<instruction, pattern>>
  /\ UNCHANGED <<mvars, dvars>>

InstructionIntoWord ==
  /\ stage = "instruction"
  /\ coded' = Word_from_Instruction(instruction)
  /\ stage' = "word"
  /\ UNCHANGED <<instruction, pattern>>
  /\ UNCHANGED <<mvars, dvars>>

WordIntoInstruction ==
  /\ stage = "word"
  /\ coded' = Instruction_from_Word(coded)
  /\ stage' = "roundtrip"
  /\ UNCHANGED <<instruction, pattern>>
  /\ UNCHANGED <<mvars, dvars>>

PatternNew ==
  /\ stage = "start"
  /\ \E value \in PatternInputs : pattern' = value
  /\ stage' = "pattern"
  /\ UNCHANGED <<instruction, coded>>
  /\ UNCHANGED <<mvars, dvars>>

U32IntoInstruction ==
  /\ stage = "pattern"
  /\ coded' = Instruction_from_u32(pattern)
  /\ stage' = "decoded"
  /\ UNCHANGED <<instruction, pattern>>
  /\ UNCHANGED <<mvars, dvars>>

InstructionBackIntoU32 ==
  /\ stage = "decoded"
  /\ ~coded.panic
  /\ coded' = u32_from_Instruction(coded.value)
  /\ stage' = "reencoded"
  /\ UNCHANGED <<instruction, pattern>>
  /\ UNCHANGED <<mvars, dvars>>

NextCodec ==
  \/ InstructionNew
  \/ InstructionIntoU32
  \/ InstructionIntoWord
  \/ WordIntoInstruction
  \/ PatternNew
  \/ U32IntoInstruction
  \/ InstructionBackIntoU32

(***************************************************************************)
(* Instruction::pack and Instruction::unpack, which Computer calls         *)
(* (src/src/main.rs): all five fields are u32 there.                       *)
(***************************************************************************)
MainInstruction_COMMAND_MASK  == U32(63)
MainInstruction_MODIFIER_MASK == U32(4032)
MainInstruction_INDEX_MASK    == U32(64512)
MainInstruction_ADDRESS_MASK  == U32(1073479680)

MainInstruction_new(command, modifier, idx, address, sign) ==
  [sign |-> sign, command |-> command, modifier |-> modifier,
   index |-> idx, address |-> address]

Instruction_pack(self) ==
  Or(Or(Or(Or(And(self.command, U32(63)),
              Shl(And(self.modifier, U32(63)), 6)),
           Shl(And(self.index, U32(63)), 12)),
        Shl(And(self.address, U32(8191)), 18)),
     Shl(self.sign, 31))

Instruction_unpack(w) ==
  [command  |-> And(w, MainInstruction_COMMAND_MASK),
   modifier |-> Shr(And(w, MainInstruction_MODIFIER_MASK), 6),
   index    |-> Shr(And(w, MainInstruction_INDEX_MASK), 12),
   address  |-> Shr(And(w, MainInstruction_ADDRESS_MASK), 18),
   sign     |-> And(Shr(w, 31), U32(1))]

(***************************************************************************)
(* Program (src/src/program.rs)                                            *)
(***************************************************************************)
Program_new == <<>>

Program_add(self, ins) == Append(self, ins)

(***************************************************************************)
(* Computer (src/src/computer.rs)                                          *)
(***************************************************************************)
\* the number of memory cells: 4000 in the source, scaled down here
MemorySize == 2

Addresses == 0 .. (MemorySize - 1)

\* the instructions a client adds to a Program:
\* LDA 1(0:5) with sign, a NOP with its other fields set, command 15, LDA 4095
ProgramInstructions ==
  { MainInstruction_new(U32(8), U32(5), U32(0), U32(1), U32(1)),
    MainInstruction_new(U32(0), U32(3), U32(2), U32(1), U32(0)),
    MainInstruction_new(U32(15), U32(5), U32(0), U32(0), U32(0)),
    MainInstruction_new(U32(8), U32(5), U32(0), U32(4095), U32(0)) }

Computer_new ==
  [overflow |-> FALSE, comparison |-> "None",
   memory |-> [k \in Addresses |-> Word_default],
   a |-> Word_default, x |-> Word_default,
   i |-> [k \in 1 .. 6 |-> Register_default]]

\* the cell Computer::load stores for one instruction
Computer_load_word(ins) == Word_new(Instruction_pack(ins), None)

Computer_load_clears_rest(mem, prog) ==
  [k \in Addresses |->
     IF k < Len(prog) THEN Computer_load_word(prog[k + 1]) ELSE Word_default]

\* memory after the loop of Computer::load has run over `prog`, to its end or
\* to the first position outside the array
Computer_load(mem, prog) ==
  [k \in Addresses |->
     IF k < Len(prog) THEN Computer_load_word(prog[k + 1]) ELSE mem[k]]

\* what the match of Computer::execute does with a decoded instruction
Computer_execute_arm_skips_unknown(mem, ins) ==
  IF ins.command = U32(0) THEN "continue"
  ELSE IF ins.command = U32(8)
       THEN IF ins.address \in { U32(k) : k \in DOMAIN mem } THEN "next"
            ELSE "execute: index out of bounds"
  ELSE "continue"

Computer_execute_arm(mem, ins) ==
  IF ins.command = U32(0) THEN "continue"
  ELSE IF ins.command = U32(8)
       THEN IF ins.address \in { U32(k) : k \in DOMAIN mem } THEN "next"
            ELSE "execute: index out of bounds"
  ELSE "execute: not implemented"

Computer_execute_a_noop_stores_word(mem, acc, ins) ==
  IF ins.command = U32(0) THEN Word_from_u32(Instruction_pack(ins)) ELSE acc

\* the accumulator after the arm of one instruction (the assignment to self.a
\* in the arm of command 8 is commented out)
Computer_execute_a(mem, acc, ins) == acc

Computer_execute_next_stays(idx) == idx

\* the position `for (index, word) in self.memory.iter().enumerate()` yields
\* after position idx
Computer_execute_next(idx) == idx + 1

\* the panics of execute, by the message of the macro or check that raises them
Panics == { "execute: not implemented", "execute: index out of bounds" }

InitMachine ==
  /\ memory = Computer_new.memory
  /\ a = Computer_new.a
  /\ x = Computer_new.x
  /\ i = Computer_new.i
  /\ overflow = Computer_new.overflow
  /\ comparison = Computer_new.comparison
  /\ program = [instructions |-> Program_new, moved |-> FALSE]
  /\ index = 0
  /\ status = "idle"
  /\ fetched = <<>>

\* Program::new(): the client starts another program
ProgramNew ==
  /\ status \in { "idle", "finished" }
  /\ program.moved
  /\ program' = [instructions |-> Program_new, moved |-> FALSE]
  /\ UNCHANGED <<memory, a, x, i, overflow, comparison, index, status, fetched>>
  /\ UNCHANGED <<cvars, dvars>>

\* Program::add(instruction)
ProgramAdd ==
  /\ status \in { "idle", "finished" }
  /\ ~program.moved
  /\ Len(program.instructions) <= MemorySize
  /\ \E ins \in ProgramInstructions :
       program' = [program EXCEPT !.instructions = Program_add(@, ins)]
  /\ UNCHANGED <<memory, a, x, i, overflow, comparison, index, status, fetched>>
  /\ UNCHANGED <<cvars, dvars>>

\* Computer::load(program)
Load ==
  /\ status \in { "idle", "finished" }
  /\ ~program.moved
  /\ memory' = Computer_load(memory, program.instructions)
  /\ status' = IF Len(program.instructions) > MemorySize
               THEN "load: index out of bounds" ELSE "idle"
  /\ program' = [program EXCEPT !.moved = TRUE]
  /\ UNCHANGED <<a, x, i, overflow, comparison, index, fetched>>
  /\ UNCHANGED <<cvars, dvars>>

\* Computer::execute(): entering the loop over memory
ExecuteBegin ==
  /\ status \in { "idle", "finished" }
  /\ status' = "executing"
  /\ index' = 0
  /\ fetched' = <<>>
  /\ UNCHANGED <<memory, a, x, i, overflow, comparison, program>>
  /\ UNCHANGED <<cvars, dvars>>

\* Computer::execute(): the loop takes the word at position `index`
ExecuteNext ==
  /\ status = "executing"
  /\ fetched' = Append(fetched, index)

\* Computer::execute(): one iteration of the loop, at position `index`
ExecuteStep ==
  /\ ExecuteNext
  /\ LET ins == Instruction_unpack(Word_read(memory[index]))
         arm == Computer_execute_arm(memory, ins)
     IN  /\ a' = Computer_execute_a(memory, a, ins)
         /\ IF arm \in Panics
            THEN /\ status' = arm
                 /\ index' = index
            ELSE /\ status' = IF Computer_execute_next(index) = MemorySize
                            THEN "finished" ELSE "executing"
                 /\ index' = Computer_execute_next(index)
  /\ UNCHANGED <<memory, x, i, overflow, comparison, program>>
  /\ UNCHANGED <<cvars, dvars>>

NextMachine ==
  \/ ProgramNew
  \/ ProgramAdd
  \/ Load
  \/ ExecuteBegin
  \/ ExecuteStep

(***************************************************************************)
(* Specifications                                                          *)
(***************************************************************************)
Init == InitMachine /\ InitCodec /\ InitData

\* the Computer with the Programs a client builds, loads and executes
Next == NextMachine
Spec == Init /\ [][Next]_vars

\* the same, where a call of execute, which has no suspension point, goes on
\* until it returns or panics: weak fairness of the iteration of its loop.
\* ExecuteStep is enabled exactly when ExecuteNext is, and the steps of Next
\* that take a word are the ExecuteStep steps, so this is WF_vars(ExecuteStep).
SpecFair == Spec /\ WF_fetched(ExecuteNext)

\* the instruction codec alone
SpecCodec == Init /\ [][NextCodec]_vars

\* the Word and Register containers alone
SpecData == Init /\ [][NextData]_vars

(***************************************************************************)
(* Properties of the containers (under SpecData)                           *)
(***************************************************************************)
\* sign and magnitude of a container as naturals, from read_sign and read_data
WordSign(w)      == IF Word_read_sign(w) THEN 1 ELSE 0
WordMagnitude(w) == Val(Word_read_data(w))
RegisterSign(r)      == IF Register_read_sign(r) THEN 1 ELSE 0
RegisterMagnitude(r) == Val(Register_read_data(r))

\* bytes left..right (left >= 1) of a magnitude of `width` 6-bit bytes,
\* most significant first
DataField(magnitude, width, left, right) ==
  (magnitude \div (64 ^ (width - right))) % (64 ^ (right - left + 1))

\* the field (left, right) of a container with the sign as byte 0
SignedField(sign, magnitude, width, left, right) ==
  IF left >= 1 THEN DataField(magnitude, width, left, right)
  ELSE IF right = 0 THEN sign
  ELSE sign * (64 ^ right) + DataField(magnitude, width, 1, right)

\* the fields (left, right) with left <= right <= width, other than (0,0)
Fields(width) ==
  { f \in (0 .. width) \X (0 .. width) : f[1] <= f[2] /\ f # <<0, 0>> }

\* C6 (as stated): read_with_modifier(0) is the sign bit as the number 0 or 1,
\* on a Word and on a Register alike.
C6_SignOnlyFieldIsZeroOrOne ==
  /\ Word_read_with_modifier(word, 0) = Ok(U32(WordSign(word)))
  /\ Register_read_with_modifier(register, 0) = Ok(U16(RegisterSign(register)))

\* C6 (amended): read_with_modifier(0) of a Word is the sign bit as 0 or 1;
\* read_with_modifier(0) of a Register is the sign bit left in place, that is
\* 0 when the sign is clear and 4096 (bit 12) when it is set.
C6_SignOnlyField ==
  /\ Word_read_with_modifier(word, 0) = Ok(U32(WordSign(word)))
  /\ Register_read_with_modifier(register, 0) = Ok(U16(4096 * RegisterSign(register)))

\* a Register with its sign set has been read with the sign-only field
C6_Witness ==
  /\ out.op = "Register::read_with_modifier"
  /\ out.arg = 0
  /\ Register_read_sign(register)
  /\ out.result = Ok(U16(4096))
  /\ Word_read_sign(word)
  /\ Word_read_with_modifier(word, 0) = Ok(U32(1))

\* C7: for every field (left, right) other than (0,0) with left <= right <= width,
\* read_with_modifier(left*10+right) is the most-significant-first concatenation
\* of the bytes left..right, where byte 0 is the sign bit and bytes 1..width are
\* the 6-bit data bytes; the full field is read(), and a field with left >= 1
\* depends on the magnitude alone.
C7_FieldIsConcatenationOfBytes ==
  /\ \A f \in Fields(Word_BYTES) :
       Word_read_with_modifier(word, f[1] * 10 + f[2]) =
         Ok(U32(SignedField(WordSign(word), WordMagnitude(word), Word_BYTES, f[1], f[2])))
  /\ \A f \in Fields(Register_BYTES) :
       Register_read_with_modifier(register, f[1] * 10 + f[2]) =
         Ok(U16(SignedField(RegisterSign(register), RegisterMagnitude(register),
                            Register_BYTES, f[1], f[2])))
  /\ Word_read_with_modifier(word, Word_BYTES) = Ok(Word_read(word))
  /\ Register_read_with_modifier(register, Register_BYTES) = Ok(Register_read(register))
  /\ Word_get_byte(word, 0) = Ok(U8(WordSign(word)))
  /\ Register_get_byte(register, 0) = Ok(U8(RegisterSign(register)))
  /\ \A k \in 1 .. Word_BYTES :
       Word_get_byte(word, k) = Ok(U8(DataField(WordMagnitude(word), Word_BYTES, k, k)))
  /\ \A k \in 1 .. Register_BYTES :
       Register_get_byte(register, k) =
         Ok(U8(DataField(RegisterMagnitude(register), Register_BYTES, k, k)))

\* bytes 2..4 of a signed Word with five different data bytes have been read
C7_Witness ==
  /\ out.op = "Word::read_with_modifier"
  /\ out.arg = 24
  /\ word = Word_new(U32(17314053), Some(TRUE))
  /\ out.result = Ok(U32(8388))
  /\ Register_read_sign(register)
  /\ RegisterMagnitude(register) = 66

\* the data bits of a Word other than bits 24-29 are zero
OnlyFirstDataByte(w) == WordMagnitude(w) % (2 ^ 24) = 0

\* C10 (as stated): byte positions count from the most significant data byte as
\* position 0, so field (1,1) of a Word with only bits 24-29 of its data set is 0.
C10_Field11ExcludesFirstDataByte ==
  OnlyFirstDataByte(word) => Word_read_with_modifier(word, 11) = Ok(U32(0))

\* C10 (amended): position 0 of a Word is the sign and positions 1..5 are the
\* data bytes from the most significant, so for a Word with only bits 24-29 of
\* its data set read_with_modifier(11) is that most significant data byte and
\* read_with_modifier(1) is the sign bit followed by it (sign * 64 + byte).
C10_Field11IsFirstDataByte ==
  OnlyFirstDataByte(word) =>
    /\ Word_read_with_modifier(word, 11) = Ok(U32(WordMagnitude(word) \div (2 ^ 24)))
    /\ Word_read_with_modifier(word, 1) =
         Ok(U32(WordSign(word) * 64 + WordMagnitude(word) \div (2 ^ 24)))

\* the Word 0b0111_1111_0000_0000_0000_0000_0000_0000 has been read with field (1,1)
C10_Witness ==
  /\ word = Word_from_u32(U32(2130706432))
  /\ out.op = "Word::read_with_modifier"
  /\ out.arg = 11
  /\ out.result = Ok(U32(63))
  /\ Word_read_with_modifier(word, 1) = Ok(U32(127))

(***************************************************************************)
(* Properties of the instruction codec (under SpecCodec)                   *)
(***************************************************************************)
\* the n bits of v from bit lo upwards, as a natural
Bits(v, lo, n) == Val(Cast(Shr(v, lo), n))

\* the field values the data model declares valid
ValidFields(ins) ==
  /\ ins.address[31] = 0 /\ Val(ins.address) <= 8191
  /\ ins.index[31] = 0 /\ Val(ins.index) <= 63
  /\ ins.modifier[31] = 0 /\ Val(ins.modifier) <= 63

\* C2: Instruction -> Word -> Instruction is the identity for every sign,
\* address in 0..8191, index in 0..63, modifier in 0..63 and command.
C2_InstructionWordRoundTrip ==
  (stage = "roundtrip" /\ ValidFields(instruction)) =>
    (~coded.panic /\ coded.value = instruction)

\* C8: in the packed pattern bit 30 is the sign whatever the address is, and the
\* index, modifier and command bit ranges depend on their own field alone.
C8_PackedFieldsDoNotOverlap ==
  stage = "packed" =>
    /\ Bits(coded, 30, 1) = (IF instruction.sign THEN 1 ELSE 0)
    /\ Bits(coded, 12, 6) = Bits(instruction.index, 0, 6)
    /\ Bits(coded, 6, 6) = Bits(instruction.modifier, 0, 6)
    /\ Bits(coded, 0, 6) = Val(u32_from_Command(instruction.command))

\* C9 (as stated): every 31-bit pattern decodes, and encodes back to itself.
C9_EveryPatternRoundTrips ==
  pattern[31] = 0 =>
    /\ stage = "decoded" => ~coded.panic
    /\ stage = "reencoded" => coded = pattern

\* C9 (amended): a 31-bit pattern decodes exactly when its command field
\* (bits 0-5) is 0 or 8, and then encodes back to itself; with any other command
\* field the decoding aborts.
C9_KnownCommandPatternRoundTrips ==
  pattern[31] = 0 =>
    /\ stage = "decoded" => (coded.panic <=> Bits(pattern, 0, 6) \notin { 0, 8 })
    /\ stage = "reencoded" => coded = pattern

\* a pattern with all five fields set has been decoded and encoded again
C9_Witness ==
  /\ stage = "reencoded"
  /\ pattern = U32(1794202248)
  /\ coded = pattern

(***************************************************************************)
(* Properties of the Computer (under Spec)                                 *)
(***************************************************************************)
\* the instruction execute decodes at memory position p
Decoded(p) == Instruction_unpack(Word_read(memory[p]))

Implemented(ins) == ins.command \in { U32(0), U32(8) }

Range(seq) == { seq[k] : k \in DOMAIN seq }

\* C1: once execute has run an LDA whose address is a memory cell and whose
\* modifier selects the full field (0:5), the accumulator equals that cell.
C1_LdaLoadsAccumulator ==
  (status \in { "executing", "finished" } /\ index > 0) =>
    LET ins == Decoded(index - 1)
    IN  (ins.command = U32(8) /\ ins.modifier = U32(5)
         /\ Val(ins.address) \in Addresses)
        => a = memory[Val(ins.address)]

\* C3: after load of a program that fits, memory[k] decodes to the sign,
\* address, index, modifier and command of the k-th instruction added.
C3_LoadStoresEachInstruction ==
  (program.moved /\ status # "load: index out of bounds"
   /\ Len(program.instructions) <= MemorySize) =>
    \A k \in 1 .. Len(program.instructions) :
      LET ins == program.instructions[k]
          got == Decoded(k - 1)
      IN  /\ Word_read_sign(memory[k - 1]) = (ins.sign = U32(1))
          /\ got.address = ins.address
          /\ got.index = ins.index
          /\ got.modifier = ins.modifier
          /\ got.command = ins.command

\* the positions of the current or last run of execute that hold a command
\* outside the implemented set
UnsupportedFetched ==
  IF status \in { "executing", "finished" } \cup Panics
  THEN { p \in Range(fetched) : ~Implemented(Decoded(p)) }
  ELSE {}

\* C4: when execute fetches a word whose command is neither 0 nor 8 the run
\* halts there with the unsupported-operation panic: that position is the last
\* one fetched, and from then on the accumulator, the extension register and
\* the index registers do not change.
C4_UnsupportedCommandHalts ==
  /\ [](\A p \in UnsupportedFetched :
          /\ status = "execute: not implemented"
          /\ index = p
          /\ fetched[Len(fetched)] = p
          /\ \A q \in Range(fetched) : q <= p)
  /\ [][status = "execute: not implemented" =>
          (status' = status /\ UNCHANGED <<a, x, i, index, fetched>>)]_vars

\* execute has halted at position 1, after running an LDA at position 0
C4_Witness ==
  /\ status = "execute: not implemented"
  /\ fetched = <<0, 1>>
  /\ index = 1
  /\ Decoded(0).command = U32(8)
  /\ Decoded(1).command = U32(15)
  /\ a = Word_default

\* C5: load succeeds for a program of exactly MemorySize instructions, and for a
\* longer one it fails and leaves every memory cell as it was.
C5_LoadIsAllOrNothing ==
  [][(~program.moved /\ program'.moved) =>
       IF Len(program.instructions) <= MemorySize
       THEN status' = "idle"
       ELSE status' = "load: index out of bounds" /\ memory' = memory]_vars

(***************************************************************************)
(* The default state (under Spec)                                          *)
(***************************************************************************)
\* a Word or Register is zero and positive: read_sign() is true and Display
\* writes '+'
WordIsPlusZero(w) ==
  /\ WordMagnitude(w) = 0
  /\ Word_read_sign(w)
  /\ Word_fmt_sign(w) = "+"

RegisterIsPlusZero(r) ==
  /\ RegisterMagnitude(r) = 0
  /\ Register_read_sign(r)
  /\ Register_fmt_sign(r) = "+"

\* no Program has been loaded into the Computer yet
Fresh == memory = Computer_new.memory

\* C11: a Word or Register produced by Default, and so every memory cell, the
\* accumulator, the extension register and the six index registers of a freshly
\* constructed Computer, has magnitude 0 and the positive sign, the one that
\* read_sign() reports as true and Display writes as '+'.
C11_DefaultIsPlusZero ==
  /\ WordIsPlusZero(Word_default)
  /\ RegisterIsPlusZero(Register_default)
  /\ Fresh => \A k \in Addresses : WordIsPlusZero(memory[k])
  /\ WordIsPlusZero(a)
  /\ WordIsPlusZero(x)
  /\ \A k \in DOMAIN i : RegisterIsPlusZero(i[k])

(***************************************************************************)
(* Frame properties of the Computer (under Spec)                           *)
(***************************************************************************)
\* execute is about to run the arm of a word whose command is 0
AtNoop == status = "executing" /\ Decoded(index).command = U32(0)

AllNoop == \A k \in Addresses : Decoded(k).command = U32(0)

\* C12: the step of execute over a Noop leaves the accumulator, the extension
\* register, the index registers, both flags and all of memory as they were and
\* goes on to the next position; so a run over a memory of Noop words only
\* never halts and changes nothing.
C12_NoopChangesNothing ==
  /\ [][AtNoop =>
          /\ UNCHANGED <<memory, a, x, i, overflow, comparison>>
          /\ index' = index + 1
          /\ status' \in { "executing", "finished" }]_vars
  /\ [][(AllNoop /\ status = "idle" /\ status' = "executing") =>
          UNCHANGED <<memory, a, x, i, overflow, comparison>>]_vars
  /\ [](AllNoop => status \notin Panics)

\* a run over two Noop words, one of them with its other fields set, has ended
C12_Witness ==
  /\ status = "finished"
  /\ AllNoop
  /\ fetched = [k \in 1 .. MemorySize |-> k - 1]
  /\ \E k \in Addresses : memory[k] # Word_default
  /\ a = Word_default

\* the step is a load of a program that fits
LoadFits ==
  /\ ~program.moved
  /\ program'.moved
  /\ Len(program.instructions) <= MemorySize

\* C13: load of a program of n <= MemorySize instructions leaves every cell at
\* an address >= n as it was, and leaves the accumulator, the extension
\* register, the index registers and both flags unchanged.
C13_LoadChangesOnlyItsCells ==
  [][LoadFits =>
       /\ \A k \in Addresses :
            k >= Len(program.instructions) => memory'[k] = memory[k]
       /\ UNCHANGED <<a, x, i, overflow, comparison>>]_vars

\* a program of one instruction has been loaded over a longer one, whose second
\* word is still in memory
C13_Witness ==
  /\ program.moved
  /\ status = "idle"
  /\ Len(program.instructions) = 1
  /\ memory[0] = Computer_load_word(program.instructions[1])
  /\ memory[1] # Word_default

(***************************************************************************)
(* Writes, bounds and masking of the containers (under SpecData)           *)
(***************************************************************************)
\* a u32 / u16 argument cut to the magnitude width of a Word / Register
WordMasked(n)     == Cast(Cast(n, 30), 32)
RegisterMasked(n) == Cast(Cast(n, 12), 16)

\* C14: on Word and on Register, write_data(n) leaves read_sign() as it was
\* and makes read_data() equal to n cut to the magnitude width (30 or 12
\* bits); write_sign(s) leaves read_data() as it was and makes read_sign()
\* equal to s.
C14_SignAndDataAreIndependent ==
  [][/\ out'.op = "Word::write_data" =>
          /\ Word_read_sign(word') = Word_read_sign(word)
          /\ Word_read_data(word') = WordMasked(out'.arg)
     /\ out'.op = "Word::write_sign" =>
          /\ Word_read_data(word') = Word_read_data(word)
          /\ Word_read_sign(word') = out'.arg
     /\ out'.op = "Register::write_data" =>
          /\ Register_read_sign(register') = Register_read_sign(register)
          /\ Register_read_data(register') = RegisterMasked(out'.arg)
     /\ out'.op = "Register::write_sign" =>
          /\ Register_read_data(register') = Register_read_data(register)
          /\ Register_read_sign(register') = out'.arg]_vars

\* write_data of an argument with bits above the magnitude has just been
\* applied to a negative Word: the sign is still set, the data is the cut
\* argument
C14_Witness ==
  /\ out.op = "Word::write_data"
  /\ out.arg = U32(2130706432)
  /\ Word_read_sign(word)
  /\ Word_read_data(word) = U32(1056964608)

\* the pair a modifier decodes to is out of the bounds of `width` bytes
OutOfBounds(modifier, width) ==
  \/ modifier \div 10 > modifier % 10
  \/ modifier % 10 > width

ReadCalls ==
  { "Word::read_with_modifier", "Word::get_byte",
    "Register::read_with_modifier", "Register::get_byte" }

\* C15: read_with_modifier with a modifier whose (left, right) has
\* left > right or right > width (5 for Word, 2 for Register) aborts,
\* get_byte with index > width aborts, and no read call, aborted or not,
\* changes the stored value of the Word or the Register.
C15_OutOfBoundsAborts ==
  /\ [](/\ (out.op = "Word::read_with_modifier" /\ OutOfBounds(out.arg, 5))
             => out.result.panic
        /\ (out.op = "Word::get_byte" /\ out.arg > 5) => out.result.panic
        /\ (out.op = "Register::read_with_modifier" /\ OutOfBounds(out.arg, 2))
             => out.result.panic
        /\ (out.op = "Register::get_byte" /\ out.arg > 2) => out.result.panic)
  /\ [][out'.op \in ReadCalls => UNCHANGED <<word, register>>]_vars

\* field (3, 1) has been asked of a Word that holds a value other than the
\* default: the call aborted and the Word still holds the value
C15_Witness ==
  /\ word = U32(17314053)
  /\ out = [op |-> "Word::read_with_modifier", arg |-> 31, result |-> Abort]

\* C16: whatever new, From<u32>, write, write_data and write_sign were given,
\* the stored value of a Word has no bit above bit 30 and that of a Register
\* none above bit 12, read_data() of a Word is below 2^30 and that of a
\* Register at most 4095, and read_data() never has the sign bit (bit 30 /
\* bit 12) set.
C16_MagnitudeIsMasked ==
  /\ \A k \in 31 .. 31 : word[k] = 0
  /\ \A k \in 13 .. 15 : register[k] = 0
  /\ \A k \in 30 .. 31 : Word_read_data(word)[k] = 0
  /\ \A k \in 12 .. 15 : Register_read_data(register)[k] = 0
  /\ WordMagnitude(word) < 2 ^ 30
  /\ RegisterMagnitude(register) <= 4095

\* a Word has just been made from the u32 of all ones while the Register
\* holds what write made of the u16 of all ones
C16_Witness ==
  /\ out.op = "Word::from"
  /\ out.arg = Not(U32(0))
  /\ word = U32(2147483647)
  /\ register = U16(8191)

(***************************************************************************)
(* The pass of execute over memory (under SpecFair)                        *)
(***************************************************************************)
Running == status \in { "executing", "finished" } \cup Panics

\* the arm of the word at position p halts the run
Halts(p) == Computer_execute_arm(memory, Decoded(p)) \in Panics

\* the positions fetched so far are 0, 1, 2, ... in this order, none twice and
\* none after one that halts; the run is over exactly after the last position
\* of memory or at the first position that halts
SingleForwardPass ==
  Running =>
    /\ fetched = [k \in 1 .. Len(fetched) |-> k - 1]
    /\ Len(fetched) <= MemorySize
    /\ \A k \in 1 .. (Len(fetched) - 1) : ~Halts(fetched[k])
    /\ status = "executing" => index = Len(fetched) /\ index < MemorySize
    /\ status = "finished" =>
         Len(fetched) = MemorySize /\ ~Halts(fetched[Len(fetched)])
    /\ status \in Panics =>
         Len(fetched) >= 1 /\ Halts(fetched[Len(fetched)])

\* C17: execute fetches the positions of memory in increasing order from 0,
\* each at most once, and always comes to its end: after the last position, or
\* at the first position whose word halts it.
C17_ExecuteIsOneForwardPass ==
  /\ []SingleForwardPass
  /\ [][status = "executing" =>
          /\ fetched' = Append(fetched, Len(fetched))
          /\ status' \in { "executing", "finished" } \cup Panics]_vars
  /\ (status = "executing") ~> (status \in { "finished" } \cup Panics)

\* a run has passed position 0 and halted at position 1, the first whose word
\* halts
C17_Witness ==
  /\ status \in Panics
  /\ fetched = <<0, 1>>
  /\ ~Halts(0)
  /\ Halts(1)

\* the positions fetched by the current run whose word is an LDA
LdaFetched ==
  IF Running THEN { p \in Range(fetched) : Decoded(p).command = U32(8) } ELSE {}

\* C18: the address decoded from every LDA word that execute runs is a cell of
\* memory, so execute never indexes memory out of range.
C18_LdaAddressIsInMemory ==
  /\ \A p \in LdaFetched : Val(Decoded(p).address) \in Addresses
  /\ status # "execute: index out of bounds"

====
